---- MODULE Spec2Model ----
(***************************************************************************)
(* A model of the FAF SDK (Wolfe-Jam/faf-rust-sdk): file discovery         *)
(* (discovery.rs), the parser, its accessors and stringify (parser.rs),    *)
(* the validator (validator.rs) and the compressor (compress.rs) over the  *)
(* schema of types.rs.                                                     *)
(*                                                                         *)
(* Rust's Option<T> is modelled as a sequence of length at most one:       *)
(* None is <<>> and Some(v) is <<v>>.                                      *)
(***************************************************************************)
EXTENDS Integers, Sequences, FiniteSets, TLC

VARIABLES
    root,      \* discovery: index of the last directory of the ancestor chain
    fs,        \* discovery: the FAF-named entries of every directory of the chain
    start,     \* discovery: the start directory the last call resolved (Option)
    found,     \* discovery: what the last find_faf_file call returned (Option)
    result,    \* discovery: what the last find_and_parse call returned
    content,   \* parser: the text handed to parse
    parsed,    \* parser: what the last parse call returned
    faf,       \* accessors: the FafFile the accessor is called on
    scored,    \* accessors: what the last score() call returned (Option)
    quality,   \* accessors: what the last is_high_quality() call returned (Option)
    validation,\* validator: what the last validate call returned (Option)
    level,     \* compressor: the level of the last compress call (Option)
    compressed,\* compressor: what the last compress call returned (Option)
    earlier,   \* caller: the results find_and_parse returned before the last write
    walk_current,  \* find_faf_file, step by step: the directory the loop is in
    walk_depth,    \* find_faf_file, step by step: the loop's counter
    walk_filename, \* find_faf_file, step by step: the index in FAF_FILES to probe next
    probes,    \* find_faf_file, step by step: the is_file calls made so far
    op         \* the operation that ran last

vars == <<root, fs, start, found, result, content, parsed, faf, scored, quality,
          validation, level, compressed, earlier, walk_current, walk_depth,
          walk_filename, probes, op>>

None == <<>>
Some(v) == <<v>>

\* The element of a singleton set.  Only({F(x) : x \in {e}}) is F(e) with e
\* evaluated once.
Only(S) == CHOOSE x \in S : TRUE

\* Result<T, E>
Ok(v) == [ok |-> TRUE, v |-> v]
Err(e) == [ok |-> FALSE, e |-> e]

\* The value of a variable before any call wrote it.
NoCall == [ok |-> FALSE, e |-> [kind |-> "NoCall", cause |-> ""]]

BoundedSeq(S, n) == UNION {[1..k -> S] : k \in 0..n}

(***************************************************************************)
(* Text.  A text is a sequence of lines (joined by newlines).  A line is   *)
(*   ws    only whitespace characters (possibly none)                      *)
(*   cm    a comment                    # ...                              *)
(*   bad   an unclosed flow sequence    invalid: [unclosed                 *)
(*   kv    a key with a scalar value    key: value      (q: quoted)        *)
(*   open  a key with nothing after it  key:                               *)
(*   item  a block sequence entry       - value                            *)
(*   flow  a key with an empty flow collection   key: {}   or   key: []    *)
(* and ind is the indentation of the line, in steps of two spaces.         *)
(***************************************************************************)
WsLine == [t |-> "ws", ind |-> 0, key |-> "", s |-> "", q |-> FALSE]
CmLine == [t |-> "cm", ind |-> 0, key |-> "", s |-> "", q |-> FALSE]
BadLine == [t |-> "bad", ind |-> 0, key |-> "invalid", s |-> "[unclosed", q |-> FALSE]
Kv(ind, key, s, q) == [t |-> "kv", ind |-> ind, key |-> key, s |-> s, q |-> q]
Open(ind, key) == [t |-> "open", ind |-> ind, key |-> key, s |-> "", q |-> FALSE]
Item(ind, s, q) == [t |-> "item", ind |-> ind, key |-> "", s |-> s, q |-> q]
Flow(ind, key, s) == [t |-> "flow", ind |-> ind, key |-> key, s |-> s, q |-> FALSE]

(***************************************************************************)
(* str::trim, as parse uses it: leading and trailing whitespace goes, and  *)
(* with it the indentation of the first line that is left.                 *)
(***************************************************************************)
RECURSIVE trim_start(_)
trim_start(c) ==
    IF c = <<>> THEN c
    ELSE IF c[1].t = "ws" THEN trim_start(Tail(c))
    ELSE [c EXCEPT ![1].ind = 0]

RECURSIVE trim_end(_)
trim_end(c) ==
    IF c = <<>> THEN c
    ELSE IF c[Len(c)].t = "ws" THEN trim_end(SubSeq(c, 1, Len(c) - 1))
    ELSE c

trim_nothing(c) == c
trim(c) == trim_end(trim_start(c))

(***************************************************************************)
(* The YAML decoder serde_yaml::from_str runs (serde_yaml 0.9 semantics).  *)
(* Nodes: a scalar (text s, quoted or plain), a mapping (e: sequence of    *)
(* <<key, node>>) or a sequence (e: sequence of nodes).                    *)
(***************************************************************************)
Scalar(s, q) == [n |-> "str", s |-> s, q |-> q, e |-> <<>>]
MapNode(e) == [n |-> "map", s |-> "", q |-> FALSE, e |-> e]
SeqNode(e) == [n |-> "seq", s |-> "", q |-> FALSE, e |-> e]

\* A plain scalar that YAML reads as null: nothing, ~ or null.
IsNull(node) == node.n = "str" /\ ~node.q /\ node.s \in {"", "~", "null"}

\* A plain empty scalar: serde_yaml takes it for an empty sequence or mapping.
IsEmptyPlain(node) == node.n = "str" /\ ~node.q /\ node.s = ""

SyntaxError == Err("syntax")
SchemaError == Err("schema")

\* The lines the scanner turns into events: blank lines and comments are skipped.
Significant(c) == SelectSeq(c, LAMBDA l : l.t \notin {"ws", "cm"})

\* One block of lines (a block mapping or a block sequence) with the lines
\* nested in it.  The indentation of the first line is the block's.
RECURSIVE parse_block(_)
parse_block(ls) ==
    LET d == ls[1].ind
        n == Len(ls)
        items(b) == \A i \in 1..Len(b) : b[i].t = "item" /\ b[i].ind = d
        seqOf(b) == SeqNode([i \in 1..Len(b) |-> Scalar(b[i].s, b[i].q)])
    IN  IF \E i \in 1..n : ls[i].ind < d THEN SyntaxError
        ELSE IF ls[1].t = "item"
        THEN IF items(ls) THEN Ok(seqOf(ls)) ELSE SyntaxError
        ELSE
          LET isHead(i) == ls[i].ind = d /\ ls[i].t # "item"
              heads == SelectSeq([i \in 1..n |-> i], isHead)
              last(k) == IF k = Len(heads) THEN n ELSE heads[k + 1] - 1
              body(k) == SubSeq(ls, heads[k] + 1, last(k))
              value(k) ==
                  LET h == ls[heads[k]]
                      b == body(k)
                  IN  IF h.t = "kv"
                      THEN IF b = <<>> THEN Ok(Scalar(h.s, h.q)) ELSE SyntaxError
                      ELSE IF h.t = "flow"
                      THEN IF b # <<>> THEN SyntaxError
                           ELSE IF h.s = "{}" THEN Ok(MapNode(<<>>)) ELSE Ok(SeqNode(<<>>))
                      ELSE IF b = <<>> THEN Ok(Scalar("", FALSE))
                      ELSE IF b[1].ind = d
                      THEN IF items(b) THEN Ok(seqOf(b)) ELSE SyntaxError
                      ELSE parse_block(b)
          IN  IF \E k \in 1..Len(heads) : ~value(k).ok THEN SyntaxError
              ELSE Ok(MapNode([k \in 1..Len(heads) |-> <<ls[heads[k]].key, value(k).v>>]))

\* The document of a text: None for a text without content (only comments).
load(c) ==
    LET ls == Significant(c)
    IN  IF \E i \in 1..Len(ls) : ls[i].t = "bad" THEN SyntaxError
        ELSE IF ls = <<>> THEN Ok(None)
        ELSE Only({IF r.ok THEN Ok(Some(r.v)) ELSE r : r \in {parse_block(ls)}})

(***************************************************************************)
(* The schema (types.rs).  A field is its key, its type, whether it is an  *)
(* Option (absent when the key is missing or null) and whether it has      *)
(* #[serde(default)] (empty when the key is missing).  A Vec<String> is a  *)
(* sequence, a HashMap<String, String> a set of <<key, value>> pairs.      *)
(***************************************************************************)
Field(key, ty, opt, dflt) == [key |-> key, ty |-> ty, opt |-> opt, dflt |-> dflt]
Req(key, ty) == Field(key, ty, FALSE, FALSE)
Opt(key, ty) == Field(key, ty, TRUE, FALSE)
Dflt(key, ty) == Field(key, ty, FALSE, TRUE)

FafDataFields ==
    << Req("faf_version", "String"), Req("project", "Project"),
       Opt("ai_score", "String"), Opt("ai_confidence", "String"),
       Opt("ai_tldr", "MapString"), Opt("instant_context", "InstantContext"),
       Opt("context_quality", "ContextQuality"), Opt("stack", "Stack"),
       Opt("human_context", "HumanContext"), Opt("preferences", "Preferences"),
       Opt("state", "State"), Dflt("tags", "VecString") >>

\* ProjectFields with #[serde(default)] on name.
ProjectFields_name_default ==
    << Dflt("name", "String"), Opt("goal", "String"), Opt("main_language", "String"),
       Opt("approach", "String"), Opt("version", "String"), Opt("license", "String") >>

ProjectFields ==
    << Req("name", "String"), Opt("goal", "String"), Opt("main_language", "String"),
       Opt("approach", "String"), Opt("version", "String"), Opt("license", "String") >>

InstantContextFields ==
    << Opt("what_building", "String"), Opt("tech_stack", "String"),
       Opt("deployment", "String"), Dflt("key_files", "VecString"),
       Dflt("commands", "MapString") >>

StackFields ==
    << Opt("frontend", "String"), Opt("backend", "String"), Opt("database", "String"),
       Opt("infrastructure", "String"), Opt("build_tool", "String"),
       Opt("testing", "String"), Opt("cicd", "String") >>

ContextQualityFields ==
    << Opt("slots_filled", "String"), Opt("confidence", "String"),
       Dflt("handoff_ready", "Bool"), Dflt("missing_context", "VecString") >>

HumanContextFields ==
    << Opt("who", "String"), Opt("what", "String"), Opt("why", "String"),
       Opt("how", "String"), Opt("where", "String"), Opt("when", "String") >>

PreferencesFields ==
    << Opt("quality_bar", "String"), Opt("testing", "String"),
       Opt("documentation", "String"), Opt("code_style", "String") >>

StateFields ==
    << Opt("phase", "String"), Opt("version", "String"), Opt("focus", "String"),
       Dflt("milestones", "VecString") >>

Fields(ty) ==
    CASE ty = "FafData" -> FafDataFields
      [] ty = "Project" -> ProjectFields
      [] ty = "InstantContext" -> InstantContextFields
      [] ty = "Stack" -> StackFields
      [] ty = "ContextQuality" -> ContextQualityFields
      [] ty = "HumanContext" -> HumanContextFields
      [] ty = "Preferences" -> PreferencesFields
      [] ty = "State" -> StateFields

\* Default::default() of a field type with #[serde(default)].
Default(ty) ==
    CASE ty = "String" -> ""
      [] ty = "Bool" -> FALSE
      [] ty = "VecString" -> <<>>
      [] ty = "MapString" -> {}

(***************************************************************************)
(* The derived Deserialize of the schema, run on a node.  Unknown keys are *)
(* ignored; a key given twice, a missing required key and a node of the    *)
(* wrong shape are errors of the data model ("schema").                    *)
(***************************************************************************)
RECURSIVE deserialize(_, _)
deserialize(node, ty) ==
    IF ty = "String"
    THEN IF node.n = "str" THEN Ok(node.s) ELSE SchemaError
    ELSE IF ty = "Bool"
    THEN IF node.n = "str" /\ ~node.q /\ node.s \in {"true", "false"}
         THEN Ok(node.s = "true") ELSE SchemaError
    ELSE IF ty = "VecString"
    THEN IF IsEmptyPlain(node) THEN Ok(<<>>)
         ELSE IF node.n = "seq" /\ \A i \in 1..Len(node.e) : node.e[i].n = "str"
         THEN Ok([i \in 1..Len(node.e) |-> node.e[i].s])
         ELSE SchemaError
    ELSE IF ty = "MapString"
    THEN IF IsEmptyPlain(node) THEN Ok({})
         ELSE IF node.n = "map" /\ \A i \in 1..Len(node.e) : node.e[i][2].n = "str"
         THEN Ok({<<node.e[i][1], node.e[i][2].s>> : i \in
                    {i \in 1..Len(node.e) :
                        \A j \in 1..Len(node.e) : node.e[j][1] = node.e[i][1] => j <= i}})
         ELSE SchemaError
    ELSE
      IF ~(node.n = "map" \/ IsEmptyPlain(node)) THEN SchemaError
      ELSE
        LET e == node.e
            fields == Fields(ty)
            at(f) == {i \in 1..Len(e) : e[i][1] = f.key}
            given(f) == e[CHOOSE i \in at(f) : TRUE][2]
            value(f) ==
                IF Cardinality(at(f)) > 1 THEN SchemaError
                ELSE IF at(f) = {}
                THEN IF f.opt THEN Ok(None)
                     ELSE IF f.dflt THEN Ok(Default(f.ty))
                     ELSE SchemaError
                ELSE IF f.opt
                THEN IF IsNull(given(f)) THEN Ok(None)
                     ELSE LET r == deserialize(given(f), f.ty)
                          IN  IF r.ok THEN Ok(Some(r.v)) ELSE r
                ELSE deserialize(given(f), f.ty)
            index(key) == CHOOSE k \in 1..Len(fields) : fields[k].key = key
        IN  IF \E k \in 1..Len(fields) : ~value(fields[k]).ok THEN SchemaError
            ELSE Ok([key \in {fields[k].key : k \in 1..Len(fields)} |->
                        value(fields[index(key)]).v])

\* serde_yaml::from_str::<FafData>
from_str(c) ==
    Only({IF ~doc.ok THEN doc
          ELSE IF doc.v = None THEN deserialize(Scalar("", FALSE), "FafData")
          ELSE deserialize(doc.v[1], "FafData") : doc \in {load(c)}})

(***************************************************************************)
(* The parser (src/src/parser.rs)                                          *)
(***************************************************************************)
\* FafError: the variant and, for YamlError, what serde_yaml reported.
FafError(kind, cause) == [kind |-> kind, cause |-> cause]

FafFile(data, path) == [data |-> data, path |-> path]

parse(text) ==
    LET c == trim(text)
    IN  IF c = <<>> THEN Err(FafError("EmptyContent", ""))
        ELSE Only({IF data.ok THEN Ok(FafFile(data.v, None))
                   ELSE Err(FafError("YamlError", data.e)) : data \in {from_str(c)}})

(***************************************************************************)
(* stringify: serde_yaml::to_string on the derived Serialize of the        *)
(* schema.  A field with skip_serializing_if is left out when it is None   *)
(* (Option) or empty (Vec, HashMap); the emitter writes an empty mapping   *)
(* as {} and an empty sequence as [], a sequence in a mapping at the       *)
(* indentation of its key, and a string in quotes when the plain form      *)
(* would be read as something else.                                        *)
(***************************************************************************)
\* The strings the plain form of which reads as null, a boolean or a number.
AmbiguousStrings == {"", "~", "null", "true", "false", "85"}

\* The scalar style, had it always been plain.
quoted_never(str) == FALSE

\* The scalar style serialize_str chooses: quoted or plain.
quoted(str) == str \in AmbiguousStrings

\* skip_serializing_if: Option::is_none, Vec::is_empty, HashMap::is_empty
skipped(x, f) ==
    \/ f.opt /\ x = None
    \/ f.dflt /\ f.ty \in {"VecString", "MapString"} /\ x = Default(f.ty)

\* The entries of a HashMap in an order of iteration: rev tells which.
iter(entries, rev) ==
    LET n == Cardinality(entries)
        e == CHOOSE e \in [1..n -> entries] : \A i, j \in 1..n : i # j => e[i] # e[j]
    IN  IF rev THEN [i \in 1..n |-> e[n + 1 - i]] ELSE e

RECURSIVE serialize_fields(_, _, _, _, _)

\* One present value under its key.
serialize_value(key, y, ty, ind, rev) ==
    IF ty = "String" THEN <<Kv(ind, key, y, quoted(y))>>
    ELSE IF ty = "Bool" THEN <<Kv(ind, key, IF y THEN "true" ELSE "false", FALSE)>>
    ELSE IF ty = "VecString"
    THEN IF y = <<>> THEN <<Flow(ind, key, "[]")>>
         ELSE <<Open(ind, key)>> \o [i \in 1..Len(y) |-> Item(ind, y[i], quoted(y[i]))]
    ELSE IF ty = "MapString"
    THEN IF y = {} THEN <<Flow(ind, key, "{}")>>
         ELSE <<Open(ind, key)>> \o
                [i \in 1..Cardinality(y) |->
                    Kv(ind + 1, iter(y, rev)[i][1], iter(y, rev)[i][2],
                       quoted(iter(y, rev)[i][2]))]
    ELSE Only({IF body = <<>> THEN <<Flow(ind, key, "{}")>> ELSE <<Open(ind, key)>> \o body :
                 body \in {serialize_fields(y, ty, ind + 1, rev, 1)}})

\* The fields of a struct from the k-th on, in the order of declaration.
serialize_fields(v, ty, ind, rev, k) ==
    IF k > Len(Fields(ty)) THEN <<>>
    ELSE LET f == Fields(ty)[k]
             x == v[f.key]
         IN  (IF skipped(x, f) THEN <<>>
              ELSE serialize_value(f.key, IF f.opt THEN x[1] ELSE x, f.ty, ind, rev))
               \o serialize_fields(v, ty, ind, rev, k + 1)

\* serde_yaml::to_string: the lines of the document, the last one ended by a
\* newline.
to_string(data, rev) == serialize_fields(data, "FafData", 0, rev, 1) \o <<WsLine>>

stringify(f, rev) == Ok(to_string(f.data, rev))

(***************************************************************************)
(* FafFile::score.  Where the characters of a string matter, as in         *)
(* ai_score here, the string is a sequence of one-character strings.       *)
(***************************************************************************)
U8_MAX == 255

DigitChars == <<"0", "1", "2", "3", "4", "5", "6", "7", "8", "9">>

IsDigit(ch) == \E d \in 1..10 : DigitChars[d] = ch

\* char::to_digit(10)
to_digit(ch) == (CHOOSE d \in 1..10 : DigitChars[d] = ch) - 1

\* str::strip_suffix, had it been used: at most one trailing ch goes.
trim_end_once(str, ch) ==
    IF str # <<>> /\ str[Len(str)] = ch THEN SubSeq(str, 1, Len(str) - 1) ELSE str

\* str::trim_end_matches(ch)
RECURSIVE trim_end_matches(_, _)
trim_end_matches(str, ch) ==
    IF str # <<>> /\ str[Len(str)] = ch
    THEN trim_end_matches(SubSeq(str, 1, Len(str) - 1), ch)
    ELSE str

\* The digit loop of u8::from_str: checked_mul(10), then checked_add(digit).
RECURSIVE from_digits(_, _)
from_digits(digits, acc) ==
    IF digits = <<>> THEN Some(acc)
    ELSE IF ~IsDigit(digits[1]) THEN None
    ELSE IF acc * 10 > U8_MAX THEN None
    ELSE IF acc * 10 + to_digit(digits[1]) > U8_MAX THEN None
    ELSE from_digits(Tail(digits), acc * 10 + to_digit(digits[1]))

\* str::parse::<u8>().ok(): an optional '+', then digits.
parse_u8(src) ==
    IF src = <<>> THEN None
    ELSE IF Len(src) = 1 /\ src[1] \in {"+", "-"} THEN None
    ELSE IF src[1] = "+" THEN from_digits(Tail(src), 0)
    ELSE from_digits(src, 0)

score(f) ==
    IF f.data.ai_score = None THEN None
    ELSE parse_u8(trim_end_matches(f.data.ai_score[1], "%"))

\* is_high_quality, had it asked for more than 70.
is_high_quality_above(f) ==
    LET s == score(f) IN IF s # None THEN s[1] > 70 ELSE FALSE

\* self.score().map(|s| s >= 70).unwrap_or(false)
is_high_quality(f) ==
    LET s == score(f) IN IF s # None THEN s[1] >= 70 ELSE FALSE

(***************************************************************************)
(* The validator (src/src/validator.rs)                                    *)
(***************************************************************************)
ValidationResult(valid, errors, warnings, sc) ==
    [valid |-> valid, errors |-> errors, warnings |-> warnings, score |-> sc]

\* if cond { list.push(message) }
push_if(cond, message) == IF cond THEN <<message>> ELSE <<>>

\* The errors, had the name not been looked at.
errors_version_only(f) ==
    push_if(f.data.faf_version = "", "Missing faf_version")

\* validate: the "Required fields" block
errors(f) ==
    push_if(f.data.faf_version = "", "Missing faf_version")
      \o push_if(f.data.project.name = "", "Missing project.name")

\* The warnings, had the fields of instant_context been looked at in an
\* absent section too.
warnings_flat(f) ==
    LET ic == f.data.instant_context
    IN  push_if(ic = None, "Missing instant_context section")
          \o push_if(ic = None \/ ic[1].what_building = None,
                     "Missing instant_context.what_building")
          \o push_if(ic = None \/ ic[1].tech_stack = None,
                     "Missing instant_context.tech_stack")
          \o push_if(f.data.stack = None, "Missing stack section")
          \o push_if(f.data.human_context = None, "Missing human_context section")

\* validate: the "Recommended sections" block
warnings(f) ==
    LET ic == f.data.instant_context
    IN  (IF ic = None THEN <<"Missing instant_context section">>
         ELSE push_if(ic[1].what_building = None, "Missing instant_context.what_building")
                \o push_if(ic[1].tech_stack = None, "Missing instant_context.tech_stack"))
          \o push_if(f.data.stack = None, "Missing stack section")
          \o push_if(f.data.human_context = None, "Missing human_context section")

\* The summands calculate_score adds to its accumulator, in order.
summands(f) ==
    LET d == f.data
        ic == d.instant_context
    IN  push_if(d.faf_version # "", 10)
          \o push_if(d.project.name # "", 10)
          \o push_if(d.project.goal # None, 10)
          \o (IF ic = None THEN <<>>
              ELSE push_if(ic[1].what_building # None, 10)
                     \o push_if(ic[1].tech_stack # None, 10)
                     \o push_if(ic[1].key_files # <<>>, 10))
          \o push_if(d.stack # None, 15)
          \o push_if(d.human_context # None, 15)
          \o push_if(d.tags # <<>>, 5)
          \o push_if(d.state # None, 5)

\* score += w, on a u8: the accumulator after the first k summands.
RECURSIVE accumulate(_, _)
accumulate(ws, k) ==
    IF k = 0 THEN 0 ELSE (accumulate(ws, k - 1) + ws[k]) % (U8_MAX + 1)

\* u8::min
min(a, b) == IF a <= b THEN a ELSE b

\* calculate_score, had the key files not been scored.
calculate_score_no_key_files(f) ==
    LET d == f.data
        ic == d.instant_context
        ws == push_if(d.faf_version # "", 10)
                \o push_if(d.project.name # "", 10)
                \o push_if(d.project.goal # None, 10)
                \o (IF ic = None THEN <<>>
                    ELSE push_if(ic[1].what_building # None, 10)
                           \o push_if(ic[1].tech_stack # None, 10))
                \o push_if(d.stack # None, 15)
                \o push_if(d.human_context # None, 15)
                \o push_if(d.tags # <<>>, 5)
                \o push_if(d.state # None, 5)
    IN  min(accumulate(ws, Len(ws)), 100)

calculate_score(f) == min(accumulate(summands(f), Len(summands(f))), 100)

validate(f) ==
    ValidationResult(errors(f) = <<>>, errors(f), warnings(f), calculate_score(f))

(***************************************************************************)
(* The compressor (src/target/package/faf-rust-sdk-1.0.1/src/compress.rs)  *)
(***************************************************************************)
CompressionLevel == {"Minimal", "Standard", "Full"}

\* The struct literals of types.rs.
FafData(faf_version, project, ai_score, ai_confidence, ai_tldr, instant_context, context_quality, stack, human_context, preferences, state, tags) ==
    [faf_version |-> faf_version, project |-> project, ai_score |-> ai_score,
     ai_confidence |-> ai_confidence, ai_tldr |-> ai_tldr,
     instant_context |-> instant_context, context_quality |-> context_quality,
     stack |-> stack, human_context |-> human_context, preferences |-> preferences,
     state |-> state, tags |-> tags]

Project(name, goal, main_language, approach, version, license) ==
    [name |-> name, goal |-> goal, main_language |-> main_language,
     approach |-> approach, version |-> version, license |-> license]

InstantContext(what_building, tech_stack, deployment, key_files, commands) ==
    [what_building |-> what_building, tech_stack |-> tech_stack,
     deployment |-> deployment, key_files |-> key_files, commands |-> commands]

\* iter().take(n), had it taken everything.
take_all(list, n) == list

\* iter().take(n).cloned().collect()
take(list, n) == SubSeq(list, 1, min(n, Len(list)))

\* compress_minimal, had it kept what_building.
compress_minimal_what_building(f) ==
    LET d == f.data
        context(ic) == InstantContext(ic.what_building, ic.tech_stack, None, <<>>, {})
        mapped == IF d.instant_context = None THEN None
                  ELSE Some(context(d.instant_context[1]))
    IN  FafData(d.faf_version,
                Project(d.project.name, d.project.goal, None, None, None, None),
                None, None, None, mapped,
                None, None, None, None, None, <<>>)

\* compress_minimal, had it kept human_context.
compress_minimal_human_context(f) ==
    LET d == f.data
        context(ic) == InstantContext(None, ic.tech_stack, None, <<>>, {})
        mapped == IF d.instant_context = None THEN None
                  ELSE Some(context(d.instant_context[1]))
    IN  FafData(d.faf_version,
                Project(d.project.name, d.project.goal, None, None, None, None),
                None, None, None, mapped,
                None, None, d.human_context, None, None, <<>>)

compress_minimal(f) ==
    LET d == f.data
        context(ic) == InstantContext(None, ic.tech_stack, None, <<>>, {})
        mapped == IF d.instant_context = None THEN None
                  ELSE Some(context(d.instant_context[1]))
    IN  FafData(d.faf_version,
                Project(d.project.name, d.project.goal, None, None, None, None),
                None, None, None, mapped,
                None, None, None, None, None, <<>>)

\* compress_standard, had it dropped the goal of the project.
compress_standard_no_goal(f) ==
    LET d == f.data
        context(ic) ==
            InstantContext(ic.what_building, ic.tech_stack, None, take(ic.key_files, 5), {})
        mapped == IF d.instant_context = None THEN None
                  ELSE Some(context(d.instant_context[1]))
    IN  FafData(d.faf_version, [d.project EXCEPT !.goal = None], d.ai_score, None, None,
                mapped,
                None, d.stack, None, None, None, <<>>)

compress_standard(f) ==
    LET d == f.data
        context(ic) ==
            InstantContext(ic.what_building, ic.tech_stack, None, take(ic.key_files, 5), {})
        mapped == IF d.instant_context = None THEN None
                  ELSE Some(context(d.instant_context[1]))
    IN  FafData(d.faf_version, d.project, d.ai_score, None, None,
                mapped,
                None, d.stack, None, None, None, <<>>)

\* compress, had Full been served as Standard is.
compress_full_as_standard(f, l) ==
    IF l = "Minimal" THEN compress_minimal(f) ELSE compress_standard(f)

compress(f, l) ==
    CASE l = "Minimal" -> compress_minimal(f)
      [] l = "Standard" -> compress_standard(f)
      [] l = "Full" -> f.data

(***************************************************************************)
(* Discovery (src/src/discovery.rs)                                        *)
(***************************************************************************)

\* The start directory is level 0 of the chain; level k is its k-th ancestor.
\* Path::parent() yields None at level root (the filesystem root of an
\* absolute start path).
MaxChain == 11

Levels == 0..MaxChain

MAX_DEPTH_deeper == 10 + 3
MAX_DEPTH == 10

FAF_FILES_legacy_first == <<".faf", "project.faf">>
FAF_FILES == <<"project.faf", ".faf">>

FafNames == {"project.faf", ".faf"}

\* current.join(filename)
join(dir, filename) == [dir |-> dir, name |-> filename]

\* What a directory holds under one of the two names: nothing, a directory,
\* or a regular file (readable as UTF-8 text, or not).
NoEntry == [kind |-> "none", readable |-> FALSE, text |-> <<>>]
DirEntry == [kind |-> "dir", readable |-> FALSE, text |-> <<>>]
UnreadableFile == [kind |-> "file", readable |-> FALSE, text |-> <<>>]
FileEntry(text) == [kind |-> "file", readable |-> TRUE, text |-> text]

\* Path::is_file
is_file(f, path) == f[path.dir][path.name].kind = "file"

\* Path::parent
parent(r, current) == IF current < r THEN Some(current + 1) ELSE None

\* for &filename in FAF_FILES { ... }
RECURSIVE probe(_, _, _)
probe(f, current, i) ==
    IF i > Len(FAF_FILES) THEN None
    ELSE LET candidate == join(current, FAF_FILES[i])
         IN  IF is_file(f, candidate) THEN Some(candidate)
             ELSE probe(f, current, i + 1)

\* The walk, had it looked for project.faf on every level before any .faf.
walk_modern_anywhere(f, r, current, depth) ==
    LET reach == {l \in current..r : depth + (l - current) < MAX_DEPTH}
        modern == {l \in reach : is_file(f, join(l, FAF_FILES[1]))}
        legacy == {l \in reach : is_file(f, join(l, FAF_FILES[2]))}
        nearest(S) == CHOOSE l \in S : \A m \in S : l <= m
    IN  IF modern # {} THEN Some(join(nearest(modern), FAF_FILES[1]))
        ELSE IF legacy # {} THEN Some(join(nearest(legacy), FAF_FILES[2]))
        ELSE None

\* while depth < MAX_DEPTH { ... }
RECURSIVE walk(_, _, _, _)
walk(f, r, current, depth) ==
    IF ~(depth < MAX_DEPTH) THEN None
    ELSE LET hit == probe(f, current, 1)
             up == parent(r, current)
         IN  IF hit # None THEN hit
             ELSE IF up # None /\ up[1] # current THEN walk(f, r, up[1], depth + 1)
             ELSE None

\* start_dir: the argument; cwd: env::current_dir().ok()
resolve(start_dir, cwd) == IF start_dir # None THEN start_dir ELSE cwd

find_faf_file(f, r, start_dir, cwd) ==
    LET st == resolve(start_dir, cwd)
    IN  IF st = None THEN None ELSE walk(f, r, st[1], 0)

\* fs::read_to_string
read_to_string(f, path) ==
    LET e == f[path.dir][path.name]
    IN  IF e.kind = "file" /\ e.readable THEN Ok(e.text)
        ELSE Err(FafError("IoError", ""))

\* parser.rs: parse_file
parse_file(f, path) ==
    LET text == read_to_string(f, path)
    IN  IF ~text.ok THEN text
        ELSE Only({IF ~r.ok THEN r ELSE Ok([r.v EXCEPT !.path = Some(path)]) :
                     r \in {parse(text.v)}})

FindError(kind, inner) == [kind |-> kind, inner |-> inner]

\* find_and_parse, had it reported every failure as NotFound.
find_and_parse_not_found(f, r, start_dir, cwd) ==
    LET path == find_faf_file(f, r, start_dir, cwd)
    IN  IF path = None THEN Err(FindError("NotFound", None))
        ELSE Only({IF p.ok THEN p ELSE Err(FindError("NotFound", None)) :
                     p \in {parse_file(f, path[1])}})

\* find_and_parse, had it turned to another FAF file of the chain when the
\* one found does not read or parse.
find_and_parse_fallback(f, r, start_dir, cwd) ==
    LET path == find_faf_file(f, r, start_dir, cwd)
        others == {q \in [dir : Levels, name : FafNames] :
                      is_file(f, q) /\ parse_file(f, q).ok}
    IN  IF path = None THEN Err(FindError("NotFound", None))
        ELSE Only({IF p.ok THEN p
                   ELSE IF others # {} THEN parse_file(f, CHOOSE q \in others : TRUE)
                   ELSE Err(FindError("ParseError", Some(p.e))) :
                     p \in {parse_file(f, path[1])}})

\* find_and_parse, had it kept the first failure it met and returned it to
\* every later call.
find_and_parse_sticky(f, r, start_dir, cwd) ==
    LET path == find_faf_file(f, r, start_dir, cwd)
        failed == {e \in earlier : ~e.ok}
    IN  IF failed # {} THEN CHOOSE e \in failed : TRUE
        ELSE IF path = None THEN Err(FindError("NotFound", None))
        ELSE Only({IF p.ok THEN p ELSE Err(FindError("ParseError", Some(p.e))) :
                     p \in {parse_file(f, path[1])}})

find_and_parse(f, r, start_dir, cwd) ==
    LET path == find_faf_file(f, r, start_dir, cwd)
    IN  IF path = None THEN Err(FindError("NotFound", None))
        ELSE Only({IF p.ok THEN p ELSE Err(FindError("ParseError", Some(p.e))) :
                     p \in {parse_file(f, path[1])}})

(***************************************************************************)
(* Texts the tests write.                                                  *)
(***************************************************************************)
VersionLine == Kv(0, "faf_version", "2.5.0", FALSE)
EmptyVersionLine == Kv(0, "faf_version", "", TRUE)
ProjectLine == Open(0, "project")
NameLine == Kv(1, "name", "test", FALSE)
EmptyNameLine == Kv(1, "name", "", TRUE)
GoalLine == Kv(1, "goal", "Testing", FALSE)
TagsScalarLine == Kv(0, "tags", "rust", TRUE)

\* "faf_version: 2.5.0\nproject:\n  name: test"
ValidText == <<VersionLine, ProjectLine, NameLine>>

\* The project section without faf_version before it.
CorruptText == <<WsLine, ProjectLine, NameLine, GoalLine>>

\* FafData of the minimal valid text.
BaseData == parse(ValidText).v.data

(***************************************************************************)
(* Specification SpecFind: calls of find_faf_file and find_and_parse on a  *)
(* chain of directories that holds at most two FAF-named entries, with the *)
(* files rewritten between calls.  A call's return value goes to the       *)
(* caller: the variables found and result hold those of the last call.     *)
(***************************************************************************)
DiskTexts == {ValidText, CorruptText}

Entries == {NoEntry, DirEntry, UnreadableFile} \cup {FileEntry(t) : t \in DiskTexts}

EmptyFs == [l \in Levels |-> [n \in FafNames |-> NoEntry]]

Place(f, l, n, e) == [f EXCEPT ![l][n] = e]

\* The FAF-named regular files of the chain, as paths.
FafFilesOn(f) == {p \in [dir : Levels, name : FafNames] : f[p.dir][p.name].kind = "file"}

ParserIdle == content = <<>> /\ parsed = NoCall
AccessorIdle == faf = FafFile(BaseData, None) /\ scored = None /\ quality = None
ValidatorIdle == validation = None
CompressorIdle == level = None /\ compressed = None
CallerIdle == earlier = {}
WalkIdle == walk_current = 0 /\ walk_depth = 0 /\ walk_filename = 1 /\ probes = 0
FindIdle == root = 0 /\ fs = EmptyFs /\ start = None /\ found = None /\ result = NoCall

InitFind ==
    /\ root \in Levels
    /\ \E l1 \in 0..root, l2 \in 0..root, n1 \in FafNames, n2 \in FafNames,
          e1 \in Entries, e2 \in Entries :
            fs = Place(Place(EmptyFs, l1, n1, e1), l2, n2, e2)
    /\ start = None
    /\ found = None
    /\ result = NoCall
    /\ op = "init"
    /\ ParserIdle
    /\ AccessorIdle
    /\ ValidatorIdle
    /\ CompressorIdle
    /\ CallerIdle
    /\ WalkIdle

FindFafFile ==
    \E start_dir \in {None, Some(0)}, cwd \in {None, Some(0)} :
        /\ start' = resolve(start_dir, cwd)
        /\ found' = find_faf_file(fs, root, start_dir, cwd)
        /\ result' = NoCall
        /\ op' = "find_faf_file"
        /\ UNCHANGED <<root, fs, content, parsed, faf, scored, quality,
                     validation, level, compressed,
                     earlier, walk_current, walk_depth, walk_filename, probes>>

FindAndParse ==
    \E start_dir \in {None, Some(0)}, cwd \in {None, Some(0)} :
        /\ start' = resolve(start_dir, cwd)
        /\ found' = find_faf_file(fs, root, start_dir, cwd)
        /\ result' = find_and_parse(fs, root, start_dir, cwd)
        /\ op' = "find_and_parse"
        /\ UNCHANGED <<root, fs, content, parsed, faf, scored, quality,
                     validation, level, compressed,
                     earlier, walk_current, walk_depth, walk_filename, probes>>

\* fs::write on a file that exists (the tests' corruption and repair).
WriteFile ==
    \E p \in FafFilesOn(fs), t \in DiskTexts :
        /\ fs[p.dir][p.name].readable
        /\ fs' = Place(fs, p.dir, p.name, FileEntry(t))
        /\ start' = None
        /\ found' = None
        /\ result' = NoCall
        /\ op' = "write"
        /\ UNCHANGED <<root, content, parsed, faf, scored, quality,
                     validation, level, compressed,
                     earlier, walk_current, walk_depth, walk_filename, probes>>

NextFind == FindFafFile \/ FindAndParse \/ WriteFile

SpecFind == InitFind /\ [][NextFind]_vars

(***************************************************************************)
(* Specification SpecParse: parse applied to every text of at most         *)
(* MaxLines lines over LineAlphabet.                                       *)
(***************************************************************************)
MaxLines == 4

LineAlphabet ==
    {WsLine, CmLine, BadLine, VersionLine, EmptyVersionLine, ProjectLine,
     NameLine, EmptyNameLine, GoalLine, TagsScalarLine}

InitParse ==
    /\ content \in BoundedSeq(LineAlphabet, MaxLines)
    /\ parsed = NoCall
    /\ op = "init"
    /\ FindIdle
    /\ CallerIdle
    /\ WalkIdle
    /\ AccessorIdle
    /\ ValidatorIdle
    /\ CompressorIdle

Parse ==
    /\ parsed' = parse(content)
    /\ op' = "parse"
    /\ UNCHANGED <<root, fs, start, found, result, content, faf, scored, quality,
                     validation, level, compressed,
                     earlier, walk_current, walk_depth, walk_filename, probes>>

NextParse == Parse

SpecParse == InitParse /\ [][NextParse]_vars

(***************************************************************************)
(* Specification SpecScore: score() and is_high_quality() on a document    *)
(* whose ai_score is absent or any string of at most MaxScoreLen           *)
(* characters over ScoreChars.  The variables scored and quality hold what *)
(* the last call returned.                                                 *)
(***************************************************************************)
MaxScoreLen == 4

ScoreChars == {"0", "2", "5", "6", "7", "9", "%", "+", "-", ".", " ", "H"}

InitScore ==
    /\ faf \in {FafFile([BaseData EXCEPT !.ai_score = a], None) :
                  a \in {None} \cup {Some(str) : str \in BoundedSeq(ScoreChars, MaxScoreLen)}}
    /\ scored = None
    /\ quality = None
    /\ op = "init"
    /\ FindIdle
    /\ CallerIdle
    /\ WalkIdle
    /\ ParserIdle
    /\ ValidatorIdle
    /\ CompressorIdle

Score ==
    /\ scored' = score(faf)
    /\ quality' = None
    /\ op' = "score"
    /\ UNCHANGED <<root, fs, start, found, result, content, parsed, faf,
                   validation, level, compressed,
                   earlier, walk_current, walk_depth, walk_filename, probes>>

IsHighQuality ==
    /\ quality' = Some(is_high_quality(faf))
    /\ scored' = None
    /\ op' = "is_high_quality"
    /\ UNCHANGED <<root, fs, start, found, result, content, parsed, faf,
                   validation, level, compressed,
                   earlier, walk_current, walk_depth, walk_filename, probes>>

NextScore == Score \/ IsHighQuality

SpecScore == InitScore /\ [][NextScore]_vars

(***************************************************************************)
(* Documents.  Section values as the tests' texts give them; a document is *)
(* the minimal document with fields and sections of these put in.          *)
(***************************************************************************)
\* A section with nothing in it: every Option None, every collection empty.
EmptySection(ty) == deserialize(MapNode(<<>>), ty).v

TestStack == [EmptySection("Stack") EXCEPT !.backend = Some("Rust")]
TestHumanContext == [EmptySection("HumanContext") EXCEPT !.who = Some("Developers")]
TestState == [EmptySection("State") EXCEPT !.phase = Some("dev")]
TestTags == <<"rust">>

\* key_files of the tests: a.rs, b.rs, ...
KeyFileNames == <<"a.rs", "b.rs", "c.rs", "d.rs", "e.rs", "f.rs", "g.rs", "h.rs">>
KeyFiles(n) == SubSeq(KeyFileNames, 1, n)

OptionOf(v) == {None, Some(v)}

(***************************************************************************)
(* Specification SpecValidate: validate on the documents that differ in    *)
(* what the validator looks at.                                            *)
(***************************************************************************)
ValidateContexts ==
    {None} \cup {Some(InstantContext(wb, ts, None, kf, {})) :
                    wb \in OptionOf("Test"), ts \in OptionOf("Rust"),
                    kf \in {KeyFiles(0), KeyFiles(2)}}

ValidateDocs ==
    {[BaseData EXCEPT !.faf_version = v, !.project.name = n, !.project.goal = g,
                      !.instant_context = ic, !.stack = st, !.human_context = hc,
                      !.tags = tg, !.state = se] :
        v \in {"", "2.5.0"}, n \in {"", "test"}, g \in OptionOf("Testing"),
        ic \in ValidateContexts, st \in OptionOf(TestStack),
        hc \in OptionOf(TestHumanContext), tg \in {<<>>, TestTags},
        se \in OptionOf(TestState)}

InitValidate ==
    /\ faf \in {FafFile(d, None) : d \in ValidateDocs}
    /\ scored = None
    /\ quality = None
    /\ validation = None
    /\ op = "init"
    /\ FindIdle
    /\ CallerIdle
    /\ WalkIdle
    /\ ParserIdle
    /\ CompressorIdle

Validate ==
    /\ validation' = Some(validate(faf))
    /\ op' = "validate"
    /\ UNCHANGED <<root, fs, start, found, result, content, parsed, faf, scored,
                   quality, level, compressed,
                   earlier, walk_current, walk_depth, walk_filename, probes>>

NextValidate == Validate

SpecValidate == InitValidate /\ [][NextValidate]_vars

(***************************************************************************)
(* Specification SpecCompress: compress, at every level, on documents that *)
(* vary every top-level field and section, and on documents that vary      *)
(* every field of instant_context, with up to MaxKeyFiles key files.       *)
(***************************************************************************)
MaxKeyFiles == 6

TestProjects ==
    {Project("test", g, ml, None, None, li) :
        g \in OptionOf("Testing"), ml \in OptionOf("Rust"), li \in OptionOf("MIT")}

TestTldr == {<<"project", "FAF SDK">>}
TestCommands == {<<"build", "cargo build">>}
TestContextQuality ==
    [EmptySection("ContextQuality") EXCEPT !.slots_filled = Some("10/12"),
                                           !.handoff_ready = TRUE]
TestPreferences == [EmptySection("Preferences") EXCEPT !.quality_bar = Some("high")]

FullContext == InstantContext(Some("App"), Some("Rust"), Some("Docker"),
                              KeyFiles(MaxKeyFiles), TestCommands)

CompressContexts ==
    {InstantContext(wb, ts, dp, KeyFiles(n), cm) :
        wb \in OptionOf("App"), ts \in OptionOf("Rust"), dp \in OptionOf("Docker"),
        n \in 0..MaxKeyFiles, cm \in {{}, TestCommands}}

\* The document with everything in it, and the one with nothing but the
\* required fields.
FullDoc(ic) ==
    FafData("2.5.0", Project("test", Some("Testing"), Some("Rust"), None, None, Some("MIT")),
            Some("85%"), Some("HIGH"), Some(TestTldr), ic, Some(TestContextQuality),
            Some(TestStack), Some(TestHumanContext), Some(TestPreferences),
            Some(TestState), TestTags)

BareDoc(ic) ==
    FafData("2.5.0", Project("test", None, None, None, None, None),
            None, None, None, ic, None, None, None, None, None, <<>>)

CompressDocs ==
    {FafData("2.5.0", pr, sc, cf, tl, ic, cq, st, hc, pf, se, tg) :
        pr \in TestProjects, sc \in OptionOf("85%"), cf \in OptionOf("HIGH"),
        tl \in OptionOf(TestTldr), ic \in OptionOf(FullContext),
        cq \in OptionOf(TestContextQuality), st \in OptionOf(TestStack),
        hc \in OptionOf(TestHumanContext), pf \in OptionOf(TestPreferences),
        se \in OptionOf(TestState), tg \in {<<>>, TestTags}}
      \cup {FullDoc(Some(ic)) : ic \in CompressContexts}
      \cup {BareDoc(Some(ic)) : ic \in CompressContexts}

InitCompress ==
    /\ faf \in {FafFile(d, None) : d \in CompressDocs}
    /\ scored = None
    /\ quality = None
    /\ level = None
    /\ compressed = None
    /\ op = "init"
    /\ FindIdle
    /\ CallerIdle
    /\ WalkIdle
    /\ ParserIdle
    /\ ValidatorIdle

Compress ==
    \E l \in CompressionLevel :
        /\ level' = Some(l)
        /\ compressed' = Some(compress(faf, l))
        /\ op' = "compress"
        /\ UNCHANGED <<root, fs, start, found, result, content, parsed, faf, scored,
                       quality, validation,
                       earlier, walk_current, walk_depth, walk_filename, probes>>

NextCompress == Compress

SpecCompress == InitCompress /\ [][NextCompress]_vars

(***************************************************************************)
(* Specification SpecRoundTrip: stringify on a document, or on what        *)
(* compress made of it, and parse on the text that comes out.  The         *)
(* documents hold strings that read as null or as a number, sections and   *)
(* maps with nothing in them, and maps of two entries.                     *)
(***************************************************************************)
EdgeStrings == {"Testing", "", "null", "~"}

TwoEntries == {<<"build", "cargo build">>, <<"test", "null">>}

RoundTripContexts ==
    {None, Some(EmptySection("InstantContext")),
     Some(InstantContext(Some("App"), None, None, KeyFiles(2), TwoEntries)),
     Some(InstantContext(Some("App"), Some("Rust"), Some(""), <<>>, {}))}

RoundTripQualities ==
    {None, Some(EmptySection("ContextQuality")),
     Some([TestContextQuality EXCEPT !.missing_context = <<"license", "">>])}

RoundTripDocs ==
    {FafData(v, Project("test", g, None, None, None, None), sc, None, tl, ic, cq, st,
             None, None, se, tg) :
        v \in {"2.5.0", ""}, g \in {None} \cup {Some(str) : str \in EdgeStrings},
        sc \in OptionOf("85"), tl \in {None, Some({}), Some(TwoEntries)},
        ic \in RoundTripContexts, cq \in RoundTripQualities,
        st \in {None, Some(EmptySection("Stack")), Some(TestStack)},
        se \in OptionOf([TestState EXCEPT !.milestones = <<"v1">>]),
        tg \in {<<>>, <<"rust", "null">>}}

InitRoundTrip ==
    /\ faf \in {FafFile(d, None) : d \in RoundTripDocs}
    /\ scored = None
    /\ quality = None
    /\ op = "init"
    /\ FindIdle
    /\ CallerIdle
    /\ WalkIdle
    /\ ParserIdle
    /\ ValidatorIdle
    /\ CompressorIdle

\* FafFile { data: compress(&faf, level), path: None }
CompressAndWrap ==
    \E l \in CompressionLevel :
        /\ faf' = FafFile(compress(faf, l), None)
        /\ content' = <<>>
        /\ parsed' = NoCall
        /\ op' = "compress"
        /\ UNCHANGED <<root, fs, start, found, result, scored, quality, validation,
                       level, compressed,
                       earlier, walk_current, walk_depth, walk_filename, probes>>

Stringify ==
    \E rev \in BOOLEAN :
        /\ content' = stringify(faf, rev).v
        /\ parsed' = NoCall
        /\ op' = "stringify"
        /\ UNCHANGED <<root, fs, start, found, result, faf, scored, quality,
                       validation, level, compressed,
                       earlier, walk_current, walk_depth, walk_filename, probes>>

\* parse(&stringify(&faf)?)
ParseBack ==
    /\ content # <<>>
    /\ Parse

NextRoundTrip == CompressAndWrap \/ Stringify \/ ParseBack

SpecRoundTrip == InitRoundTrip /\ [][NextRoundTrip]_vars

(***************************************************************************)
(* Specification SpecRecover: the workflow of the recovery tests.  A       *)
(* project.faf in the start directory, and possibly a second FAF file, are *)
(* overwritten again and again, with valid text, with text that does not   *)
(* parse and with text that parses to an invalid document; between the     *)
(* writes the caller calls find_and_parse and validates what it returns.   *)
(* The caller keeps the results of the calls before the last write.        *)
(***************************************************************************)
\* "faf_version: 2.5.0\nproject:\n  name: ''"
EmptyNameText == <<VersionLine, ProjectLine, EmptyNameLine>>

RecoverTexts == DiskTexts \cup {EmptyNameText}

InitRecover ==
    /\ root \in 0..1
    /\ \E t1 \in RecoverTexts, l2 \in 0..root, n2 \in FafNames,
          e2 \in {NoEntry} \cup {FileEntry(t) : t \in RecoverTexts} :
            fs = Place(Place(EmptyFs, l2, n2, e2), 0, "project.faf", FileEntry(t1))
    /\ start = None
    /\ found = None
    /\ result = NoCall
    /\ validation = None
    /\ earlier = {}
    /\ op = "init"
    /\ ParserIdle
    /\ AccessorIdle
    /\ CompressorIdle
    /\ WalkIdle

\* fs::write(&faf_path, ...)
Overwrite ==
    \E p \in FafFilesOn(fs), t \in RecoverTexts :
        /\ fs' = Place(fs, p.dir, p.name, FileEntry(t))
        /\ earlier' = IF result = NoCall THEN earlier ELSE earlier \cup {result}
        /\ start' = None
        /\ found' = None
        /\ result' = NoCall
        /\ validation' = None
        /\ op' = "write"
        /\ UNCHANGED <<root, content, parsed, faf, scored, quality, level, compressed,
                       walk_current, walk_depth, walk_filename, probes>>

\* let validation = validate(&faf), on the faf find_and_parse returned
ValidateFound ==
    /\ result.ok
    /\ validation' = Some(validate(result.v))
    /\ op' = "validate"
    /\ UNCHANGED <<root, fs, start, found, result, content, parsed, faf, scored,
                   quality, level, compressed, earlier,
                   walk_current, walk_depth, walk_filename, probes>>

NextRecover == Overwrite \/ FindAndParse \/ ValidateFound

SpecRecover == InitRecover /\ [][NextRecover]_vars

(***************************************************************************)
(* Specification SpecWalk: one call of find_faf_file, step by step: a step *)
(* is one is_file probe, one move to the parent, or the return.  The chain *)
(* holds FAF-named entries in one directory.  A call that has begun keeps  *)
(* running, hence the fairness condition.                                  *)
(***************************************************************************)
WalkEntries == {NoEntry, DirEntry, FileEntry(ValidText)}

InitWalk ==
    /\ root \in Levels
    /\ \E l \in 0..root, e1 \in WalkEntries, e2 \in WalkEntries :
            fs = Place(Place(EmptyFs, l, "project.faf", e1), l, ".faf", e2)
    /\ start = None
    /\ found = None
    /\ result = NoCall
    /\ op = "init"
    /\ WalkIdle
    /\ ParserIdle
    /\ AccessorIdle
    /\ ValidatorIdle
    /\ CompressorIdle
    /\ CallerIdle

\* let start = match start_dir { ... }; let mut current = ...; let mut depth = 0;
WalkBegin ==
    \E start_dir \in {None, Some(0)}, cwd \in {None, Some(0)} :
        /\ op = "init"
        /\ start' = resolve(start_dir, cwd)
        /\ IF resolve(start_dir, cwd) = None
           THEN op' = "returned" /\ UNCHANGED walk_current
           ELSE op' = "walking" /\ walk_current' = resolve(start_dir, cwd)[1]
        /\ walk_depth' = 0
        /\ walk_filename' = 1
        /\ UNCHANGED <<root, fs, found, result, content, parsed, faf, scored, quality,
                       validation, level, compressed, earlier, probes>>

\* if candidate.is_file() { return Some(candidate); }
WalkProbe ==
    /\ op = "walking"
    /\ walk_depth < MAX_DEPTH
    /\ walk_filename <= Len(FAF_FILES)
    /\ probes' = probes + 1
    /\ IF is_file(fs, join(walk_current, FAF_FILES[walk_filename]))
       THEN /\ found' = Some(join(walk_current, FAF_FILES[walk_filename]))
            /\ op' = "returned"
            /\ UNCHANGED walk_filename
       ELSE /\ walk_filename' = walk_filename + 1
            /\ UNCHANGED <<found, op>>
    /\ UNCHANGED <<root, fs, start, result, content, parsed, faf, scored, quality,
                   validation, level, compressed, earlier, walk_current, walk_depth>>

\* The move to the parent, had it not been counted.
WalkAscend_uncounted ==
    /\ op = "walking"
    /\ walk_depth < MAX_DEPTH
    /\ walk_filename > Len(FAF_FILES)
    /\ IF parent(root, walk_current) # None /\ parent(root, walk_current)[1] # walk_current
       THEN /\ walk_current' = parent(root, walk_current)[1]
            /\ walk_filename' = 1
            /\ UNCHANGED <<walk_depth, found, op>>
       ELSE /\ found' = None
            /\ op' = "returned"
            /\ UNCHANGED <<walk_current, walk_depth, walk_filename>>
    /\ UNCHANGED <<root, fs, start, result, content, parsed, faf, scored, quality,
                   validation, level, compressed, earlier, probes>>

\* match current.parent() { Some(parent) if parent != current => ..., _ => break }
WalkAscend ==
    /\ op = "walking"
    /\ walk_depth < MAX_DEPTH
    /\ walk_filename > Len(FAF_FILES)
    /\ IF parent(root, walk_current) # None /\ parent(root, walk_current)[1] # walk_current
       THEN /\ walk_current' = parent(root, walk_current)[1]
            /\ walk_depth' = walk_depth + 1
            /\ walk_filename' = 1
            /\ UNCHANGED <<found, op>>
       ELSE /\ found' = None
            /\ op' = "returned"
            /\ UNCHANGED <<walk_current, walk_depth, walk_filename>>
    /\ UNCHANGED <<root, fs, start, result, content, parsed, faf, scored, quality,
                   validation, level, compressed, earlier, probes>>

\* while depth < MAX_DEPTH fails: None
WalkExhaust ==
    /\ op = "walking"
    /\ ~(walk_depth < MAX_DEPTH)
    /\ found' = None
    /\ op' = "returned"
    /\ UNCHANGED <<root, fs, start, result, content, parsed, faf, scored, quality,
                   validation, level, compressed, earlier, walk_current, walk_depth,
                   walk_filename, probes>>

NextWalk == WalkBegin \/ WalkProbe \/ WalkAscend \/ WalkExhaust

SpecWalk == InitWalk /\ [][NextWalk]_vars /\ WF_vars(NextWalk)

(***************************************************************************)
(* Specification SpecShrink: validate on what compress returns, at every   *)
(* level, for the documents of SpecValidate and for documents that vary    *)
(* every field of instant_context.                                         *)
(***************************************************************************)
ShrinkDocs ==
    ValidateDocs \cup {FullDoc(Some(ic)) : ic \in CompressContexts}
                 \cup {BareDoc(Some(ic)) : ic \in CompressContexts}

InitShrink ==
    /\ faf \in {FafFile(d, None) : d \in ShrinkDocs}
    /\ scored = None
    /\ quality = None
    /\ validation = None
    /\ level = None
    /\ compressed = None
    /\ op = "init"
    /\ FindIdle
    /\ CallerIdle
    /\ WalkIdle
    /\ ParserIdle

\* validate(&FafFile { data: compress(&faf, level), path: None })
ValidateCompressed ==
    /\ compressed # None
    /\ validation' = Some(validate(FafFile(compressed[1], None)))
    /\ op' = "validate"
    /\ UNCHANGED <<root, fs, start, found, result, content, parsed, faf, scored,
                   quality, level, compressed, earlier,
                   walk_current, walk_depth, walk_filename, probes>>

NextShrink == Compress \/ ValidateCompressed

SpecShrink == InitShrink /\ [][NextShrink]_vars

(***************************************************************************)
(* Properties of discovery, under SpecFind.                                *)
(***************************************************************************)
\* "up to 10 parent directories", as the documentation of find_faf_file has it.
DocumentedAncestors == 10

\* The directories within the loop's reach: not beyond the end of the chain.
Examined == {l \in 0..root : l < MAX_DEPTH}

\* The FAF-named regular files within the loop's reach.
Hits == {p \in FafFilesOn(fs) : p.dir \in Examined}

FindReturned == op = "find_faf_file" /\ start = Some(0)

\* C1: find_faf_file examines the start directory and up to 10 ancestors: when
\* the only FAF file of the chain is in the k-th ancestor, for any k in 0..10,
\* and that ancestor exists, find_faf_file returns that file.
C1_ElevenDirectories ==
    FindReturned =>
        \A k \in 0..DocumentedAncestors, n \in FafNames :
            (k <= root /\ FafFilesOn(fs) = {join(k, n)}) => found = Some(join(k, n))

\* C2: the search goes level by level: find_faf_file returns a regular file
\* of the nearest level that holds project.faf or .faf, it returns project.faf
\* when that level holds both, and it returns nothing only when no level
\* within reach holds either.
C2_NearestLevelFirst ==
    FindReturned =>
        /\ (found = None) <=> (Hits = {})
        /\ found # None =>
            /\ found[1] \in Hits
            /\ \A p \in Hits : found[1].dir <= p.dir
            /\ join(found[1].dir, "project.faf") \in Hits => found[1].name = "project.faf"

\* C2 happens: both names are regular files in the parent of the start
\* directory, and project.faf of the parent is returned.
C2_Witness ==
    /\ FindReturned
    /\ FafFilesOn(fs) = {join(1, "project.faf"), join(1, ".faf")}
    /\ found = Some(join(1, "project.faf"))

\* C3 as claimed: when a project.faf exists in a directory within reach, the
\* returned path is never a .faf of a nearer level.
C3_NeverNearerLegacy ==
    FindReturned =>
        \A p \in Hits :
            p.name = "project.faf" =>
                ~(found # None /\ found[1].name = ".faf" /\ found[1].dir < p.dir)

\* C3, amended: a .faf is never preferred over a project.faf of the same or a
\* nearer level (when .faf of level k is returned, no level up to k holds a
\* regular file project.faf), and the nearest level that holds a FAF file
\* decides: its .faf is returned when it holds no project.faf, whatever the
\* farther levels hold.
C3_NeverFartherLegacy ==
    FindReturned =>
        /\ (found # None /\ found[1].name = ".faf") =>
              \A l \in 0..found[1].dir : ~is_file(fs, join(l, "project.faf"))
        /\ \A k \in Examined :
              ( /\ is_file(fs, join(k, ".faf"))
                /\ \A l \in 0..k : ~is_file(fs, join(l, "project.faf"))
                /\ \A l \in 0..(k - 1) : ~is_file(fs, join(l, ".faf")) )
              => found = Some(join(k, ".faf"))

\* C3 happens: a .faf is returned while a farther level within reach holds a
\* project.faf.
C3_Witness ==
    /\ FindReturned
    /\ found # None
    /\ found[1].name = ".faf"
    /\ \E p \in Hits : p.name = "project.faf" /\ p.dir > found[1].dir

\* C4: find_faf_file returns None when no directory among the start directory
\* and its first 10 ancestors holds a FAF file, so also when the only FAF file
\* is more than 10 levels up.
C4_AbsentBeyondBound ==
    op = "find_faf_file" =>
        ((\A p \in FafFilesOn(fs) : p.dir > DocumentedAncestors) => found = None)

\* C4 happens: the only FAF file of the chain is 11 levels up, and nothing is
\* returned.
C4_Witness ==
    /\ FindReturned
    /\ FafFilesOn(fs) # {}
    /\ \A p \in FafFilesOn(fs) : p.dir > DocumentedAncestors
    /\ found = None

\* C5: find_and_parse returns NotFound exactly when find_faf_file returns
\* None; otherwise it returns what parse_file returns for the path found: the
\* parsed document with that path, or its error wrapped in ParseError.
C5_FindThenParse ==
    op = "find_and_parse" =>
        /\ (result = Err(FindError("NotFound", None))) <=> (found = None)
        /\ found # None =>
            LET e == fs[found[1].dir][found[1].name]
            IN  IF ~e.readable
                THEN result = Err(FindError("ParseError", Some(FafError("IoError", ""))))
                ELSE IF parse(e.text).ok
                THEN /\ result.ok
                     /\ result.v.data = parse(e.text).v.data
                     /\ result.v.path = found
                ELSE result = Err(FindError("ParseError", Some(parse(e.text).e)))

\* C5 happens: a file is found and its text fails to parse.
C5_Witness ==
    /\ op = "find_and_parse"
    /\ found # None
    /\ ~result.ok
    /\ result.e.kind = "ParseError"
    /\ result.e.inner[1].kind = "YamlError"

(***************************************************************************)
(* Properties of parse, under SpecParse.                                   *)
(***************************************************************************)
\* The top-level entries of a text that decodes to a mapping, <<>> otherwise.
TopEntries(c) ==
    Only({IF d.ok /\ d.v # None /\ d.v[1].n = "map" THEN d.v[1].e ELSE <<>> :
            d \in {load(trim(c))}})

\* Well-formed structured text: it decodes, to a mapping.
WellFormed(c) == TopEntries(c) # <<>>

\* The project section, or the name key in it, is absent.
LacksProjectName(c) ==
    \A i \in 1..Len(TopEntries(c)) :
        TopEntries(c)[i][1] = "project" =>
            \A j \in 1..Len(TopEntries(c)[i][2].e) : TopEntries(c)[i][2].e[j][1] # "name"

\* C6: on well-formed text without the project section or without the name
\* key in it, parse fails with the missing-field kind of error, which is not
\* the kind syntax errors have.
C6_MissingFieldKind ==
    (op = "parse" /\ WellFormed(content) /\ LacksProjectName(content)) =>
        (~parsed.ok /\ parsed.e.kind = "MissingField")

\* C7: a successful parse had a faf_version line, a project section and a
\* name line in it to read, and returns a document with their values (which
\* may be empty strings); text of comments alone never parses.
C7_RequiredPresent ==
    op = "parse" =>
        /\ parsed.ok =>
            /\ \E i \in 1..Len(content) :
                  /\ content[i].t = "kv"
                  /\ content[i].key = "faf_version"
                  /\ parsed.v.data.faf_version = content[i].s
            /\ \E i, j \in 1..Len(content) :
                  /\ i < j
                  /\ content[i].t = "open"
                  /\ content[i].key = "project"
                  /\ content[j].t = "kv"
                  /\ content[j].key = "name"
                  /\ content[j].ind > content[i].ind
                  /\ parsed.v.data.project.name = content[j].s
        /\ (\A i \in 1..Len(content) : content[i].t \in {"ws", "cm"}) => ~parsed.ok

\* C7 happens: a text with empty faf_version and empty name parses.
C7_Witness ==
    /\ op = "parse"
    /\ parsed.ok
    /\ parsed.v.data.faf_version = ""
    /\ parsed.v.data.project.name = ""

\* C8: parse fails with EmptyContent exactly on the texts that consist of
\* whitespace alone.
C8_EmptyContentIffBlank ==
    op = "parse" =>
        ((~parsed.ok /\ parsed.e.kind = "EmptyContent")
            <=> (\A i \in 1..Len(content) : content[i].t = "ws"))

\* C8 happens: a text of several blank lines is refused as EmptyContent.
C8_Witness ==
    /\ op = "parse"
    /\ Len(content) >= 2
    /\ \A i \in 1..Len(content) : content[i].t = "ws"
    /\ parsed = Err(FafError("EmptyContent", ""))

(***************************************************************************)
(* Properties of score(), under SpecScore.                                 *)
(***************************************************************************)
\* The string without its trailing '%' characters: its longest prefix that
\* does not end in '%'.
Stripped(str) ==
    LET ends == {k \in 0..Len(str) :
                    /\ k = 0 \/ str[k] # "%"
                    /\ \A j \in (k + 1)..Len(str) : str[j] = "%"}
    IN  SubSeq(str, 1, CHOOSE k \in ends : TRUE)

Pow10(n) == IF n = 0 THEN 1 ELSE IF n = 1 THEN 10 ELSE IF n = 2 THEN 100
            ELSE IF n = 3 THEN 1000 ELSE IF n = 4 THEN 10000 ELSE 100000

RECURSIVE SumTo(_, _)
SumTo(ds, k) ==
    IF k = 0 THEN 0 ELSE SumTo(ds, k - 1) + to_digit(ds[k]) * Pow10(Len(ds) - k)

\* The number a string of decimal digits denotes.
Denotes(ds) == SumTo(ds, Len(ds))

IsDecimal(ds) == ds # <<>> /\ \A i \in 1..Len(ds) : IsDigit(ds[i])

\* What score() is to return when the digits are those of rest.
Expected(rest) ==
    IF IsDecimal(rest) /\ Denotes(rest) <= 255 THEN Some(Denotes(rest)) ELSE None

\* C9 as claimed: score() returns n exactly when ai_score, without its
\* trailing '%' characters, is an unsigned decimal integer n in [0,255], and
\* None otherwise.
C9_UnsignedDecimal ==
    op = "score" =>
        IF faf.data.ai_score = None THEN scored = None
        ELSE scored = Expected(Stripped(faf.data.ai_score[1]))

\* C9, amended: score() returns n exactly when ai_score, without its trailing
\* '%' characters, is one or more decimal digits, optionally preceded by a
\* single '+', that denote n in [0,255], and None otherwise.
C9_OptionalPlusDecimal ==
    op = "score" =>
        IF faf.data.ai_score = None THEN scored = None
        ELSE LET rest == Stripped(faf.data.ai_score[1])
             IN  IF rest # <<>> /\ rest[1] = "+"
                 THEN scored = Expected(Tail(rest))
                 ELSE scored = Expected(rest)

\* C9 happens: "+5%%" scores 5.
C9_Witness ==
    /\ op = "score"
    /\ faf.data.ai_score = Some(<<"+", "5", "%", "%">>)
    /\ scored = Some(5)

\* C10: whenever score() returns a value, the value is at most 100.
C10_AtMostHundred ==
    (op = "score" /\ scored # None) => scored[1] <= 100

\* C11: is_high_quality() is true exactly when score() returns a value of at
\* least 70: false when ai_score is absent or does not parse, true for "70",
\* false for "69".
C11_HighQualityFromSeventy ==
    op = "is_high_quality" =>
        /\ quality = Some(score(faf) # None /\ score(faf)[1] >= 70)
        /\ faf.data.ai_score = None => quality = Some(FALSE)
        /\ (faf.data.ai_score # None /\ ~IsDecimal(Stripped(faf.data.ai_score[1])) /\
              ~(Stripped(faf.data.ai_score[1]) # <<>> /\ Stripped(faf.data.ai_score[1])[1] = "+"))
              => quality = Some(FALSE)
        /\ faf.data.ai_score \in {Some(<<"7", "0">>), Some(<<"7", "0", "%">>)}
              => quality = Some(TRUE)
        /\ faf.data.ai_score \in {Some(<<"6", "9">>), Some(<<"6", "9", "%">>)}
              => quality = Some(FALSE)

\* C11 happens: a document with ai_score "70%" is of high quality.
C11_Witness ==
    /\ op = "is_high_quality"
    /\ faf.data.ai_score = Some(<<"7", "0", "%">>)
    /\ quality = Some(TRUE)

(***************************************************************************)
(* Properties of validate, under SpecValidate.                             *)
(***************************************************************************)
Count(cond) == IF cond THEN 1 ELSE 0

Occurrences(list, x) == Cardinality({i \in 1..Len(list) : list[i] = x})

\* C12: validate returns valid exactly when its errors list is empty, which
\* is exactly when faf_version and project.name are both non-empty; the list
\* holds one entry for each of the two that is empty, and nothing else.
C12_ValidIffNoErrors ==
    op = "validate" =>
        LET r == validation[1]
            d == faf.data
        IN  /\ r.valid <=> (r.errors = <<>>)
            /\ (r.errors = <<>>) <=> (d.faf_version # "" /\ d.project.name # "")
            /\ Occurrences(r.errors, "Missing faf_version") = Count(d.faf_version = "")
            /\ Occurrences(r.errors, "Missing project.name") = Count(d.project.name = "")
            /\ Len(r.errors) = Count(d.faf_version = "") + Count(d.project.name = "")

\* C12 happens: a document with an empty project.name alone is invalid, with
\* one error.
C12_Witness ==
    /\ op = "validate"
    /\ faf.data.faf_version # ""
    /\ faf.data.project.name = ""
    /\ ~validation[1].valid
    /\ validation[1].errors = <<"Missing project.name">>

\* C13: the warnings of validate do not bear on valid, and they are: one for
\* an absent instant_context; for a present one, one for an absent
\* what_building and one for an absent tech_stack; one for an absent stack;
\* one for an absent human_context; and nothing else.
C13_WarningsExact ==
    op = "validate" =>
        LET r == validation[1]
            d == faf.data
            ic == d.instant_context
        IN  /\ r.valid <=> (d.faf_version # "" /\ d.project.name # "")
            /\ Occurrences(r.warnings, "Missing instant_context section") = Count(ic = None)
            /\ Occurrences(r.warnings, "Missing instant_context.what_building")
                 = Count(ic # None /\ ic[1].what_building = None)
            /\ Occurrences(r.warnings, "Missing instant_context.tech_stack")
                 = Count(ic # None /\ ic[1].tech_stack = None)
            /\ Occurrences(r.warnings, "Missing stack section") = Count(d.stack = None)
            /\ Occurrences(r.warnings, "Missing human_context section")
                 = Count(d.human_context = None)
            /\ Len(r.warnings) =
                 Count(ic = None)
                   + Count(ic # None /\ ic[1].what_building = None)
                   + Count(ic # None /\ ic[1].tech_stack = None)
                   + Count(d.stack = None) + Count(d.human_context = None)

\* C13 happens: a document is valid with three warnings, the one for the
\* absent instant_context among them.
C13_Witness ==
    /\ op = "validate"
    /\ validation[1].valid
    /\ validation[1].warnings =
         <<"Missing instant_context section", "Missing stack section",
           "Missing human_context section">>

\* The sum of the weights of the conditions a document satisfies.
WeightSum(d) ==
    10 * Count(d.faf_version # "") + 10 * Count(d.project.name # "")
      + 10 * Count(d.project.goal # None)
      + 10 * Count(d.instant_context # None /\ d.instant_context[1].what_building # None)
      + 10 * Count(d.instant_context # None /\ d.instant_context[1].tech_stack # None)
      + 10 * Count(d.instant_context # None /\ d.instant_context[1].key_files # <<>>)
      + 15 * Count(d.stack # None) + 15 * Count(d.human_context # None)
      + 5 * Count(d.tags # <<>>) + 5 * Count(d.state # None)

\* Every scored field of the document is there.
AllScored(d) ==
    /\ d.faf_version # "" /\ d.project.name # "" /\ d.project.goal # None
    /\ d.instant_context # None
    /\ d.instant_context[1].what_building # None
    /\ d.instant_context[1].tech_stack # None
    /\ d.instant_context[1].key_files # <<>>
    /\ d.stack # None /\ d.human_context # None /\ d.tags # <<>> /\ d.state # None

\* Of the scored fields, only faf_version and project.name are there.
OnlyRequired(d) ==
    /\ d.faf_version # "" /\ d.project.name # "" /\ d.project.goal = None
    /\ d.instant_context = None
    /\ d.stack = None /\ d.human_context = None /\ d.tags = <<>> /\ d.state = None

\* C14: the score of validate is the sum of the weights of the satisfied
\* conditions; it is within 0..100, the u8 accumulator never passes 255 on
\* the way, a document with only faf_version and project.name scores 20 and
\* a document with every scored field scores 100.
C14_ScoreIsWeightSum ==
    op = "validate" =>
        LET r == validation[1]
            ws == summands(faf)
        IN  /\ r.score = WeightSum(faf.data)
            /\ r.score \in 0..100
            /\ \A k \in 1..Len(ws) : accumulate(ws, k - 1) + ws[k] <= U8_MAX
            /\ OnlyRequired(faf.data) => r.score = 20
            /\ AllScored(faf.data) => r.score = 100

\* C14 happens: the document with every scored field scores 100.
C14_Witness ==
    /\ op = "validate"
    /\ AllScored(faf.data)
    /\ validation[1].score = 100

(***************************************************************************)
(* Properties of compress, under SpecCompress.                             *)
(***************************************************************************)
Compressed(l) == op = "compress" /\ level = Some(l)

\* C15: compress(D, Full) is D, field for field.
C15_FullIsIdentity ==
    Compressed("Full") =>
        /\ compressed[1] = faf.data
        /\ \A k \in 1..Len(FafDataFields) :
              compressed[1][FafDataFields[k].key] = faf.data[FafDataFields[k].key]

\* C15 happens: the document with every section and MaxKeyFiles key files
\* comes back whole from level Full.
C15_Witness ==
    /\ Compressed("Full")
    /\ faf.data = FullDoc(Some(FullContext))
    /\ compressed = Some(FullDoc(Some(FullContext)))

\* C16: compress(D, Standard) keeps faf_version, project, ai_score and stack
\* as they are; of a present instant_context it keeps what_building and
\* tech_stack and the first min(5, length) key files in order, and drops
\* deployment and commands; an absent instant_context stays absent;
\* ai_confidence, ai_tldr, context_quality, human_context, preferences,
\* state and tags are dropped.
C16_StandardKeeps ==
    Compressed("Standard") =>
        LET c == compressed[1]
            d == faf.data
        IN  /\ c.faf_version = d.faf_version
            /\ c.project = d.project
            /\ c.ai_score = d.ai_score
            /\ c.stack = d.stack
            /\ (d.instant_context = None) <=> (c.instant_context = None)
            /\ d.instant_context # None =>
                LET ic == d.instant_context[1]
                    cc == c.instant_context[1]
                IN  /\ cc.what_building = ic.what_building
                    /\ cc.tech_stack = ic.tech_stack
                    /\ Len(cc.key_files) = IF Len(ic.key_files) < 5 THEN Len(ic.key_files) ELSE 5
                    /\ \A i \in 1..Len(cc.key_files) : cc.key_files[i] = ic.key_files[i]
                    /\ cc.deployment = None
                    /\ cc.commands = {}
            /\ c.ai_confidence = None
            /\ c.ai_tldr = None
            /\ c.context_quality = None
            /\ c.human_context = None
            /\ c.preferences = None
            /\ c.state = None
            /\ c.tags = <<>>

\* C16 happens: of more than five key files, level Standard keeps the first
\* five.
C16_Witness ==
    /\ Compressed("Standard")
    /\ faf.data.instant_context # None
    /\ Len(faf.data.instant_context[1].key_files) > 5
    /\ compressed[1].instant_context[1].key_files = KeyFiles(5)

\* C17: compress(D, Minimal) keeps faf_version, project.name, project.goal
\* and, of a present instant_context, tech_stack; everything else is absent
\* or empty in the result.
C17_MinimalKeeps ==
    Compressed("Minimal") =>
        LET c == compressed[1]
            d == faf.data
        IN  /\ c.faf_version = d.faf_version
            /\ c.project.name = d.project.name
            /\ c.project.goal = d.project.goal
            /\ \A key \in {"main_language", "approach", "version", "license"} :
                  c.project[key] = None
            /\ (d.instant_context = None) <=> (c.instant_context = None)
            /\ d.instant_context # None =>
                LET cc == c.instant_context[1]
                IN  /\ cc.tech_stack = d.instant_context[1].tech_stack
                    /\ cc.what_building = None
                    /\ cc.deployment = None
                    /\ cc.key_files = <<>>
                    /\ cc.commands = {}
            /\ \A key \in {"ai_score", "ai_confidence", "ai_tldr", "context_quality",
                           "stack", "human_context", "preferences", "state"} :
                  c[key] = None
            /\ c.tags = <<>>

\* C17 happens: of what_building and tech_stack, level Minimal keeps
\* tech_stack alone.
C17_Witness ==
    /\ Compressed("Minimal")
    /\ faf.data.instant_context # None
    /\ faf.data.instant_context[1].what_building # None
    /\ faf.data.instant_context[1].tech_stack # None
    /\ compressed[1].instant_context[1].tech_stack = Some("Rust")
    /\ compressed[1].instant_context[1].what_building = None

\* Everything a value of type ty holds in a, b holds too, with the same
\* value: a present field is present, a list entry is at its place, a map
\* entry is in the map.
RECURSIVE Within(_, _, _)
Within(a, b, ty) ==
    IF ty \in {"String", "Bool"} THEN a = b
    ELSE IF ty = "VecString"
    THEN Len(a) <= Len(b) /\ \A i \in 1..Len(a) : a[i] = b[i]
    ELSE IF ty = "MapString" THEN a \subseteq b
    ELSE \A k \in 1..Len(Fields(ty)) :
            LET f == Fields(ty)[k]
            IN  IF f.opt
                THEN a[f.key] = None
                       \/ (b[f.key] # None /\ Within(a[f.key][1], b[f.key][1], f.ty))
                ELSE Within(a[f.key], b[f.key], f.ty)

\* C18: the levels are nested: what Minimal retains of a document Standard
\* retains with the same value, and what Standard retains Full holds with
\* the same value.
C18_LevelsNested ==
    /\ Compressed("Minimal") => Within(compressed[1], compress(faf, "Standard"), "FafData")
    /\ Compressed("Standard") =>
          /\ Within(compress(faf, "Minimal"), compressed[1], "FafData")
          /\ Within(compressed[1], compress(faf, "Full"), "FafData")
    /\ Compressed("Full") => Within(compress(faf, "Standard"), compressed[1], "FafData")

\* C18 happens: Standard holds strictly more than Minimal and strictly less
\* than Full.
C18_Witness ==
    /\ Compressed("Standard")
    /\ compressed[1] # compress(faf, "Minimal")
    /\ compressed[1] # faf.data
    /\ compressed[1].project.goal # None
    /\ compressed[1].instant_context # None
    /\ Len(compressed[1].instant_context[1].key_files) = 5

NullValuesText ==
    <<WsLine, VersionLine, ProjectLine, NameLine,
      Kv(1, "goal", "null", FALSE), Kv(1, "main_language", "~", FALSE), WsLine>>

NullValued(c, i) ==
    \/ c[i].t = "kv" /\ ~c[i].q /\ c[i].s \in {"", "~", "null"}
    \/ /\ c[i].t = "open"
       /\ i = Len(c) \/ c[i + 1].t = "ws"
            \/ c[i + 1].ind < c[i].ind
            \/ (c[i + 1].ind = c[i].ind /\ c[i + 1].t # "item")

\* C20: the text stringify returns, for a document or for a compress result,
\* has no key with a null, an empty list or an empty map as its value.
C20_NothingEmptyEmitted ==
    op = "stringify" =>
        \A i \in 1..Len(content) : content[i].t # "flow" /\ ~NullValued(content, i)

(***************************************************************************)
(* Properties of the recovery workflow, under SpecRecover.                 *)
(***************************************************************************)
\* The file the files of the chain, as they are now, make discovery select:
\* of the nearest level that holds one, project.faf before .faf.
Selected ==
    IF start = None \/ Hits = {} THEN None
    ELSE Some(CHOOSE p \in Hits :
                \A q \in Hits :
                    p.dir < q.dir \/ (p.dir = q.dir /\ (p.name = "project.faf" \/ q = p)))

\* What the contents of that file, as they are now, make of a call.
Outcome ==
    IF Selected = None THEN Err(FindError("NotFound", None))
    ELSE LET e == fs[Selected[1].dir][Selected[1].name]
         IN  IF ~e.readable THEN Err(FindError("ParseError", Some(FafError("IoError", ""))))
             ELSE IF parse(e.text).ok
             THEN Ok(FafFile(parse(e.text).v.data, Selected))
             ELSE Err(FindError("ParseError", Some(parse(e.text).e)))

SelectedIsValid ==
    Selected # None /\ fs[Selected[1].dir][Selected[1].name] = FileEntry(ValidText)

\* C21: no state is kept between calls: whatever was written and returned
\* before, the result of find_and_parse, and the validation of it, are those
\* of the contents the files have at the call; on restored valid content the
\* call succeeds and the document validates.
C21_CurrentContentsDecide ==
    /\ op \in {"find_and_parse", "validate"} => result = Outcome
    /\ op = "validate" => validation = Some(validate(Outcome.v))
    /\ (op = "find_and_parse" /\ SelectedIsValid) => result.ok
    /\ (op = "validate" /\ SelectedIsValid) => validation[1].valid

\* C21 happens: an earlier call failed on corrupted content, the content was
\* restored, and the call after that succeeded and validated.
C21_Witness ==
    /\ op = "validate"
    /\ SelectedIsValid
    /\ \E e \in earlier : ~e.ok /\ e.e.kind = "ParseError"
    /\ result.ok
    /\ validation[1].valid

(***************************************************************************)
(* Properties of the walk of find_faf_file, under SpecWalk.                *)
(***************************************************************************)
\* Why a call that returned has stopped: no start directory; a candidate
\* found, by the last probe made; the root reached; the depth bound hit.
StoppedAtCandidate ==
    /\ found # None
    /\ is_file(fs, found[1])
    /\ found[1] = join(walk_current, FAF_FILES[walk_filename])
    /\ probes = Len(FAF_FILES) * walk_depth + walk_filename

StoppedAtRoot ==
    /\ found = None
    /\ parent(root, walk_current) = None
    /\ probes = Len(FAF_FILES) * (walk_depth + 1)

StoppedAtBound ==
    /\ found = None
    /\ walk_depth = MAX_DEPTH
    /\ probes = Len(FAF_FILES) * MAX_DEPTH

\* C22: every call of find_faf_file returns; it returns when a candidate is
\* found, when the root is reached or when the depth bound is hit (or at once
\* without a start directory), with what find_faf_file is to return, and
\* never makes more than 22 probes.
C22_WalkTerminates ==
    /\ <>(op = "returned")
    /\ [](probes <= 22)
    /\ [](op = "returned" =>
            /\ found = find_faf_file(fs, root, start, None)
            /\ \/ start = None /\ found = None /\ probes = 0
               \/ start # None /\ StoppedAtCandidate
               \/ start # None /\ StoppedAtRoot
               \/ start # None /\ StoppedAtBound)

\* C22 happens: in a chain longer than the bound without a FAF file within
\* reach, the call returns nothing after two probes in each of MAX_DEPTH
\* directories.
C22_Witness ==
    /\ op = "returned"
    /\ root >= MAX_DEPTH
    /\ StoppedAtBound
    /\ probes = 20

(***************************************************************************)
(* No fallback, under SpecFind.                                            *)
(***************************************************************************)
\* The file discovery selected does not read, or its text does not parse.
FoundFails ==
    /\ found # None
    /\ LET e == fs[found[1].dir][found[1].name]
       IN  ~e.readable \/ ~parse(e.text).ok

\* Another FAF file within reach of the walk holds a valid document.
ValidElsewhere ==
    \E p \in Hits : p # found[1] /\ fs[p.dir][p.name] = FileEntry(ValidText)

\* C23: when the file discovery selects fails to read or to parse,
\* find_and_parse returns ParseError with the error of that file, whatever
\* other FAF files hold: a valid .faf beside it or a valid FAF file farther
\* up is not turned to.
C23_NoFallback ==
    (op = "find_and_parse" /\ FoundFails) =>
        LET e == fs[found[1].dir][found[1].name]
        IN  /\ ~result.ok
            /\ result.e.kind = "ParseError"
            /\ result.e.inner =
                 Some(IF e.readable THEN parse(e.text).e ELSE FafError("IoError", ""))

\* C23 happens: project.faf of the start directory does not parse, a valid
\* FAF file is beside it or farther up, and the call fails with ParseError.
C23_Witness ==
    /\ op = "find_and_parse"
    /\ FoundFails
    /\ found[1] = join(0, "project.faf")
    /\ ValidElsewhere
    /\ ~result.ok
    /\ result.e.kind = "ParseError"

(***************************************************************************)
(* Properties of validate after compress, under SpecShrink.                *)
(***************************************************************************)
\* The score validate gives the document compressed at level l.
ScoreAt(l) == validate(FafFile(compress(faf, l), None)).score

\* C24: compression never raises the score and never changes validity: the
\* score at Minimal is at most that at Standard, which is at most that at
\* Full, which is the score of the document itself; valid is the same at
\* every level as for the document.
C24_ScoreShrinks ==
    op = "validate" =>
        /\ level = Some("Minimal") => validation[1].score <= ScoreAt("Standard")
        /\ level = Some("Standard") =>
              /\ ScoreAt("Minimal") <= validation[1].score
              /\ validation[1].score <= ScoreAt("Full")
        /\ level = Some("Full") =>
              /\ ScoreAt("Standard") <= validation[1].score
              /\ validation[1].score = validate(faf).score
        /\ validation[1].valid = validate(faf).valid

\* C24 happens: an invalid document scores strictly less at Minimal than at
\* Standard and strictly less at Standard than whole, and stays invalid.
C24_Witness ==
    /\ op = "validate"
    /\ level = Some("Minimal")
    /\ ~validate(faf).valid
    /\ ~validation[1].valid
    /\ validation[1].score < ScoreAt("Standard")
    /\ ScoreAt("Standard") < validate(faf).score

====
